---------------------------- MODULE Spec2Model ----------------------------
(***************************************************************************)
(* FocaBotCore (Azarasi): the module event router (Module.registerEvent /  *)
(* unregisterEvent and its guild guard), the module's command bookkeeping, *)
(* and the CouchDB data store with its change-feed subscriptions.          *)
(*                                                                         *)
(* The specifications share the definitions below:                         *)
(*   Spec       loaded modules registering events; events emitted on the   *)
(*              gateway client, the framework bus and the change feed;     *)
(*   LifeSpec   modules loaded and unloaded, registering commands, events; *)
(*   SubSpec    CouchDataStore.subscribe called directly, off, the change  *)
(*              feed fan-out;                                              *)
(*   StoreSpec  CouchDataStore: connect, ensureReady, get, set, del        *)
(*              (FairStoreSpec: the same, every started operation runs on  *)
(*              whenever it can).                                          *)
(***************************************************************************)
EXTENDS Integers, Sequences, FiniteSets, TLC

(* ------------------------------ bounds -------------------------------- *)

\* wrapper closures / subscriptions created in one behaviour
MaxRegs == 2
\* guarded wrapper invocations suspended at the same time
MaxInflight == 1
\* (guild, module) pairs flagged disabled at the same time
MaxDisabled == 1
\* off() calls made on one DataSubscription
MaxOff == 2
\* get / set / del calls in progress at the same time
MaxOps == 2
\* revisions a document goes through
MaxRev == 2

(* --------------------------- value domains ----------------------------- *)

Modules == {"m1", "m2"}
NoMod == "none"

RawHandlers == {"h1", "h2"}
NoHandler == "none"
\* the user handlers that may throw when they run
ThrowingHandlers == {"h2"}

Guilds == {"g1", "g2"}
NoGuild == "none"

\* event names, as name.split('.') sees them
EventNames == { <<"discord", "message">>, <<"db", "GuildData">>, <<"tick">> }

CmdNames == {"ping", "pong"}
\* the strings unregisterCommand is called with: a name may be spelled in
\* another case than it was registered in
CmdArgs == CmdNames \cup {"PING"}

\* document values; Null is JavaScript's null, NoVal a payload without a value
Vals == {"v1", "v2"}
Null == "null"
NoVal == "none"

(* ------------------------- listeners, bindings ------------------------- *)

\* A function handed to an emitter or to the data store.  id = 0 is the user's
\* own handler; id > 0 is the wrapper closure created by the id-th call of
\* registerEvent (module.ts:137), which closes over mod and handler.  `by` is
\* history: the module whose registerEvent attached the function (NoMod for a
\* direct caller of the data store); no operation reads it.
RawListener(h, by) == [id |-> 0, mod |-> NoMod, h |-> h, by |-> by]
Wrapper(id, m, h) == [id |-> id, mod |-> m, h |-> h, by |-> m]
NoListener == [id |-> -1, mod |-> NoMod, h |-> NoHandler, by |-> NoMod]

\* module.ts:149-176, the switch on nameParts[0]
ModuleEventType(name) ==
    IF Head(name) \in {"discord", "client", "bot"} THEN "Discord"
    ELSE IF Head(name) \in {"db", "ds", "datastore", "database"} THEN "DataStore"
    ELSE "Azarasi"

\* nameParts.slice(1).join('.'), kept as the sequence of the joined parts
EvName(name) == Tail(name)

\* the emitter key a name is bound under
SourceKey(name) == IF ModuleEventType(name) = "Azarasi" THEN name ELSE EvName(name)

BotEvents == { EvName(n) : n \in { x \in EventNames : ModuleEventType(x) = "Discord" } }
BusEvents == { n \in EventNames : ModuleEventType(n) = "Azarasi" }
Channels == { EvName(n) : n \in { x \in EventNames : ModuleEventType(x) = "DataStore" } }

\* document ids of the database
StoreKeys == Channels \cup { <<"Other">> }

VARIABLES
    modState,       \* Module.state per module id, "Unloaded" when no instance exists
    registry,       \* CommandManager: command name -> owning module
    commands,       \* Module.commands: the keys of the module's map
    events,         \* Module.events: the module's ModuleEvent records, in order
    botListeners,   \* Discord.Client (EventEmitter) listeners per event name
    busListeners,   \* Azarasi.events (EventEmitter) listeners per event name
    subscriptions,  \* CouchDataStore.subscriptions
    subscribing,    \* subscribe() calls suspended at ensureReady()
    ready,          \* CouchDataStore.ready
    disabled,       \* GuildModuleState: the (guild, module) pairs flagged disabled
    inflight,       \* wrapper invocations suspended at await isDisabledForGuild
    nextId,         \* closures / subscriptions created so far
    last,           \* what the last operation did: handler calls, error raised
    feed,           \* CouchDataStore.feed: "none" until connect() follows the feed
    db,             \* the CouchDB database: document id -> revision and val
    anon,           \* the vals of the documents stored under ids CouchDB generated
    ops,            \* get / set / del calls in progress
    offCalls,       \* per DataSubscription handed to a caller: off() calls made
    deps,           \* ModuleManager: the (dependent, dependency) edges recorded
    az,             \* the framework instance the last constructor call built
    players         \* audioPlayer.js _guilds: the AudioPlayer of each guild, and
                    \* the processes and streams its play() calls started

routerVars == <<modState, registry, commands, events, botListeners, busListeners,
                disabled, inflight, deps, az, players>>
sharedVars == <<subscriptions, subscribing, ready, nextId, last>>
storeVars == <<feed, db, anon, ops, offCalls>>

(* ------------------------------ helpers -------------------------------- *)

RemoveAt(s, i) == SubSeq(s, 1, i - 1) \o SubSeq(s, i + 1, Len(s))

\* Array.prototype.indexOf(x, from), 1-based; 0 when absent
RECURSIVE IndexFrom(_, _, _)
IndexFrom(s, x, from) ==
    IF from > Len(s) THEN 0
    ELSE IF s[from] = x THEN from
    ELSE IndexFrom(s, x, from + 1)

\* EventEmitter.removeListener: removes the most recently added instance
RECURSIVE LastIndexOf(_, _, _)
LastIndexOf(s, x, i) ==
    IF i = 0 THEN 0
    ELSE IF s[i] = x THEN i
    ELSE LastIndexOf(s, x, i - 1)

RemoveListener(s, l) ==
    LET i == LastIndexOf(s, l, Len(s))
    IN  IF i = 0 THEN s ELSE RemoveAt(s, i)

NoLast == [op |-> "none", src |-> "none", key |-> <<>>, calls |-> <<>>,
           err |-> "none", bound |-> 0, entered |-> 0, val |-> NoVal,
           fault |-> "none", guild |-> NoGuild]

(* ------------------------- framework construction --------------------- *)

\* the properties object handed to the constructor: NoProperties when there
\* is none, a field NoVal when it is not set
NoList == [set |-> FALSE, ids |-> <<>>]
Lists == {NoList, [set |-> TRUE, ids |-> <<>>], [set |-> TRUE, ids |-> <<"banned">>]}
NoProperties == [prefix |-> "undefined", token |-> "undefined", blacklist |-> NoList]
Properties ==
    [prefix : {NoVal, "--"}, token : {NoVal, "t"}, blacklist : Lists] \cup {NoProperties}

\* the managers the constructor creates and the gateway events it listens to
Managers == {"guilds", "permissions", "commands", "modules", "locales", "settings"}
GatewayEvents == {"ready", "message", "debug", "error"}

\* an instance whose constructor threw err before creating anything
Aborted(version, properties, err) ==
    [version |-> version, properties |-> properties, err |-> err,
     client |-> FALSE, managers |-> {}, listeners |-> {}]

Built(version, properties) ==
    [version |-> version, properties |-> properties, err |-> "none",
     client |-> TRUE, managers |-> Managers, listeners |-> GatewayEvents]

\* the constructor of index.js (index.js:43-129)
ConstructorJS(properties) ==
    IF properties = NoProperties THEN Aborted("js", properties, "No properties object.")
    ELSE IF properties.prefix = NoVal THEN Aborted("js", properties, "No prefix set.")
    ELSE IF properties.token = NoVal THEN Aborted("js", properties, "Missing bot token.")
    ELSE Built("js", properties)

\* a constructor that checks nothing
ConstructorUnchecked(properties) == Built("ts", properties)

\* the constructor of the TypeScript class (docs/audioPlayer.js.html:474-507):
\* properties.token of no object is a TypeError, prefix is optional
ConstructorTS(properties) ==
    IF properties = NoProperties THEN Aborted("ts", properties, "TypeError")
    ELSE IF properties.token = NoVal
    THEN Aborted("ts", properties, "You must specify a bot token!")
    ELSE Built("ts", properties)

Constructor(version, properties) ==
    IF version = "js" THEN ConstructorJS(properties) ELSE ConstructorTS(properties)

\* the instance of a started bot (examples/JavaScript/main.js:4-7)
Started ==
    Built("ts", [prefix |-> "--", token |-> "t",
                 blacklist |-> [set |-> TRUE, ids |-> <<"banned">>]])
NoInstance == Aborted("none", NoProperties, "none")

(* ----------------------------- audio player --------------------------- *)

\* play() calls one AudioPlayer takes
MaxPlays == 2
Plays == 1..MaxPlays

\* a guild with no AudioPlayer yet
NoPlayer == [made |-> FALSE, voiceConnection |-> FALSE, currentStream |-> 0,
             ffmpegProcess |-> 0, joining |-> {}, started |-> 0,
             procs |-> [k \in Plays |-> "none"],
             streams |-> [k \in Plays |-> "none"],
             onEnd |-> [k \in Plays |-> FALSE]]
NoPlayers == [g \in Guilds |-> NoPlayer]

\* the AudioPlayer constructor (docs/audioPlayer.js.html:43-52)
NewPlayer == [NoPlayer EXCEPT !.made = TRUE]

\* AudioPlayer.clean (docs/audioPlayer.js.html:148-163)
Clean(pl, disconnect) ==
    LET killed == IF pl.ffmpegProcess # 0
                  THEN [pl EXCEPT !.procs[pl.ffmpegProcess] = "killed"]
                  ELSE pl
        cleared == [killed EXCEPT !.currentStream = 0]
    IN  IF disconnect THEN [cleared EXCEPT !.voiceConnection = FALSE] ELSE cleared

\* stream k emits 'end': the listener play() attached with once
\* (docs/audioPlayer.js.html:108) runs clean()
EmitEnd(pl, k) ==
    LET ended == [pl EXCEPT !.streams[k] = "ended", !.onEnd[k] = FALSE]
    IN  IF pl.onEnd[k] THEN Clean(ended, FALSE) ELSE ended

(* ------------------------------- Init ---------------------------------- *)

EmptyBot == [e \in BotEvents |-> <<>>]
EmptyBus == [e \in BusEvents |-> <<>>]
EmptyRegistry == [c \in CmdNames |-> NoMod]

RouterInit ==
    /\ registry = EmptyRegistry
    /\ commands = [m \in Modules |-> {}]
    /\ events = [m \in Modules |-> <<>>]
    /\ botListeners = EmptyBot
    /\ busListeners = EmptyBus
    /\ disabled = {}
    /\ inflight = <<>>
    /\ deps = {}
    /\ az = Started
    /\ players = NoPlayers

\* a document id with no document
Absent == [rev |-> 0, val |-> Null]

\* the store as constructed (module.ts:329, 336-337, 343-355), over a database
\* that holds whatever earlier runs and other writers left in it
StoreInit ==
    /\ feed = "none"
    /\ db \in [StoreKeys -> {Absent} \cup [rev : {1}, val : Vals]]
    /\ anon = {}
    /\ ops = <<>>
    /\ offCalls = <<>>

SharedInit ==
    /\ subscriptions = <<>>
    /\ subscribing = <<>>
    /\ ready = FALSE
    /\ nextId = 0
    /\ last = NoLast

(* ------------------------- guild enable / disable ---------------------- *)

\* Module.allowDisabling (module.ts:35): true unless the module's class
\* overrides it, as m2's does
AllowDisabling(m) == m # "m2"

\* a lookup that reports the stored flag whatever the module allows
StoredFlag(g, m) == <<g, m>> \in disabled

\* ModuleManager.isModuleDisabledForGuild, reached through Module.isDisabledForGuild
IsModuleDisabledForGuild(g, m) == AllowDisabling(m) /\ <<g, m>> \in disabled

IsDisabledForGuild(m, g) == IsModuleDisabledForGuild(g, m)

DisableForGuild(m, g) ==
    /\ <<g, m>> \notin disabled
    /\ Cardinality(disabled) < MaxDisabled
    /\ disabled' = disabled \cup {<<g, m>>}
    /\ last' = NoLast
    /\ UNCHANGED <<storeVars, deps, az, players>>
    /\ UNCHANGED <<modState, registry, commands, events, botListeners, busListeners,
                   inflight, subscriptions, subscribing, ready, nextId>>

EnableForGuild(m, g) ==
    /\ <<g, m>> \in disabled
    /\ disabled' = disabled \ {<<g, m>>}
    /\ last' = NoLast
    /\ UNCHANGED <<storeVars, deps, az, players>>
    /\ UNCHANGED <<modState, registry, commands, events, botListeners, busListeners,
                   inflight, subscriptions, subscribing, ready, nextId>>

(* ------------------------------ commands ------------------------------- *)

Alive(m) == modState[m] \in {"Loading", "Loaded", "Reloading"}

\* a registerCommand that lets the later registration take the name over
RegisterCommandOverwrite(m, n) ==
    /\ Alive(m)
    /\ registry' = [registry EXCEPT ![n] = m]
    /\ commands' = [commands EXCEPT ![m] = @ \cup {n}]
    /\ last' = NoLast
    /\ UNCHANGED <<storeVars, deps, az, players>>
    /\ UNCHANGED <<modState, events, botListeners, busListeners, disabled, inflight,
                   subscriptions, subscribing, ready, nextId>>

\* Module.registerCommand: CommandManager.register throws on a duplicate name,
\* the catch logs it and returns false
RegisterCommand(m, n) ==
    /\ Alive(m)
    /\ IF registry[n] # NoMod
       THEN /\ UNCHANGED <<registry, commands>>
            /\ last' = [NoLast EXCEPT !.op = "registerCommand", !.err = "DuplicateTrigger"]
       ELSE /\ registry' = [registry EXCEPT ![n] = m]
            /\ commands' = [commands EXCEPT ![m] = @ \cup {n}]
            /\ last' = NoLast
    /\ UNCHANGED <<storeVars, deps, az, players>>
    /\ UNCHANGED <<modState, events, botListeners, busListeners, disabled, inflight,
                   subscriptions, subscribing, ready, nextId>>

\* CommandManager.get: literal names are looked up without regard to case
Canon(a) == IF a = "PING" THEN "ping" ELSE a

\* the registry and map left by Module.unregisterCommand(a) called on module m
\* (module.ts:87-91): the registry gives up the command found under a, the
\* module's map the key a
UnregisterCommandResult(m, a, reg, cmds) ==
    IF reg[Canon(a)] = NoMod \/ reg[Canon(a)] # m
    THEN [reg |-> reg, cmds |-> cmds]
    ELSE [reg |-> [reg EXCEPT ![Canon(a)] = NoMod], cmds |-> cmds \ {a}]

UnregisterCommand(m, a) ==
    /\ Alive(m)
    /\ LET r == UnregisterCommandResult(m, a, registry, commands[m])
       IN  /\ registry' = r.reg
           /\ commands' = [commands EXCEPT ![m] = r.cmds]
    /\ last' = NoLast
    /\ UNCHANGED <<storeVars, deps, az, players>>
    /\ UNCHANGED <<modState, events, botListeners, busListeners, disabled, inflight,
                   subscriptions, subscribing, ready, nextId>>

(* --------------------------- event delivery ---------------------------- *)

\* one invocation of a user handler
Call(e, src, key, p, late, overtaken, threw) ==
    [w |-> e.l.id, mod |-> e.l.mod, h |-> e.l.h, via |-> e.via, src |-> src, key |-> key,
     guild |-> p.guild, val |-> p.val,
     late |-> late, overtaken |-> overtaken, threw |-> threw]

\* a wrapper invocation suspended at `await mod.isDisabledForGuild(guild)`
Suspended(e, src, key, p) ==
    [l |-> e.l, via |-> e.via, src |-> src, key |-> key, guild |-> p.guild,
     val |-> p.val, overtaken |-> FALSE]

\* An emitter (EventEmitter.emit, or the change feed's forEach) calling the
\* listeners L[i..] in order with payload p (the guild it carries, or NoGuild,
\* and its value); an entry of L is a listener l and, for the change feed, the
\* id `via` of the subscription that holds it.  T holds the positions whose
\* user handler throws when it runs.
\*  - a user handler bound directly runs at once, and its exception leaves the
\*    emitter's loop: the listeners after it are not called;
\*  - a wrapper (module.ts:137-146) with no guild in the payload calls the
\*    handler before its first await; an exception rejects the wrapper's promise;
\*  - a wrapper with a guild in the payload suspends at the lookup.
RECURSIVE Fanout(_, _, _, _, _, _)
Fanout(L, i, src, key, p, T) ==
    IF i > Len(L)
    THEN [calls |-> <<>>, susp |-> <<>>, err |-> "none", entered |-> 0]
    ELSE LET l == L[i].l
             rest == Fanout(L, i + 1, src, key, p, T)
             c == Call(L[i], src, key, p, FALSE, FALSE, i \in T)
         IN  IF l.id = 0 /\ i \in T
             THEN [calls |-> <<c>>, susp |-> <<>>, err |-> "HandlerError", entered |-> 1]
             ELSE IF l.id = 0 \/ p.guild = NoGuild
             THEN [rest EXCEPT !.calls = <<c>> \o @, !.entered = @ + 1]
             ELSE [rest EXCEPT !.susp = <<Suspended(L[i], src, key, p)>> \o @,
                               !.entered = @ + 1]

\* the suspended invocations of a wrapper that has just delivered a newer event
Overtake(pending, ws) ==
    [j \in 1..Len(pending) |->
        IF pending[j].l.id \in ws THEN [pending[j] EXCEPT !.overtaken = TRUE]
        ELSE pending[j]]

CalledWrappers(calls) == { calls[j].w : j \in 1..Len(calls) } \ {0}

\* an event `key` with payload p reaches the listeners L
Deliver(L, src, key, p) ==
    \E T \in SUBSET { i \in 1..Len(L) : L[i].l.h \in ThrowingHandlers } :
        LET r == Fanout(L, 1, src, key, p, T)
        IN  /\ Len(inflight) + Len(r.susp) <= MaxInflight
            /\ inflight' = Overtake(inflight, CalledWrappers(r.calls)) \o r.susp
            /\ last' = [NoLast EXCEPT !.op = "emit", !.src = src, !.key = key,
                           !.calls = r.calls, !.err = r.err, !.bound = Len(L),
                           !.entered = r.entered, !.val = p.val,
                           !.guild = IF Len(L) > 0 THEN p.guild ELSE NoGuild]

\* the listeners of an EventEmitter, as Fanout takes them
OfEmitter(L) == [j \in 1..Len(L) |-> [l |-> L[j], via |-> 0]]

\* event payloads: with or without a guild, no value
Payloads == [guild : Guilds \cup {NoGuild}, val : {NoVal}]
\* a change notification whose value would be, or carry, a Guild object
GuildChanges == [guild : Guilds \cup {NoGuild}, val : Vals]
\* change notifications (module.ts:377-380): doc.val of a document parsed from
\* the feed's JSON, which is no instance of Discord.Guild and carries none
Changes == [guild : {NoGuild}, val : Vals]

\* the gateway client emits event ev (index.js:112: client.on / emit)
EmitBot(ev, p) ==
    /\ Deliver(OfEmitter(botListeners[ev]), "Discord", ev, p)
    /\ UNCHANGED <<storeVars, deps, az, players>>
    /\ UNCHANGED <<modState, registry, commands, events, botListeners, busListeners,
                   disabled, subscriptions, subscribing, ready, nextId>>

\* the framework bus emits event name
EmitBus(name, p) ==
    /\ Deliver(OfEmitter(busListeners[name]), "Azarasi", name, p)
    /\ UNCHANGED <<storeVars, deps, az, players>>
    /\ UNCHANGED <<modState, registry, commands, events, botListeners, busListeners,
                   disabled, subscriptions, subscribing, ready, nextId>>

\* module.ts:378-380: the handlers of the subscriptions on key, in table order
SubscribersOf(key) ==
    LET S == SelectSeq(subscriptions, LAMBDA s : s.key = key)
    IN  [j \in 1..Len(S) |-> [l |-> S[j].handler, via |-> S[j].id]]

\* the followed change feed reports a change of the document `key`
\* (module.ts:375-381)
FeedChange(key, p) ==
    /\ feed = "following"
    /\ Deliver(SubscribersOf(key), "DataStore", key, p)
    /\ UNCHANGED <<storeVars, deps, az, players>>
    /\ UNCHANGED <<modState, registry, commands, events, botListeners, busListeners,
                   disabled, subscriptions, subscribing, ready, nextId>>

\* module.ts:141-145: the lookup of a suspended wrapper completes
ResumeWrapper(i) ==
    /\ i \in 1..Len(inflight)
    /\ LET p == inflight[i]
           older == [j \in 1..Len(inflight) |->
                        IF j < i /\ inflight[j].l.id = p.l.id
                        THEN [inflight[j] EXCEPT !.overtaken = TRUE]
                        ELSE inflight[j]]
           pl == [guild |-> p.guild, val |-> p.val]
       IN  IF IsDisabledForGuild(p.l.mod, p.guild)
           THEN /\ inflight' = RemoveAt(inflight, i)
                /\ last' = [NoLast EXCEPT !.op = "resume", !.src = p.src, !.key = p.key]
           ELSE /\ inflight' = RemoveAt(older, i)
                /\ \E threw \in {FALSE, p.l.h \in ThrowingHandlers} :
                     last' = [NoLast EXCEPT !.op = "resume", !.src = p.src, !.key = p.key,
                                 !.calls = <<Call(p, p.src, p.key, pl, TRUE,
                                                  p.overtaken, threw)>>]
    /\ UNCHANGED <<storeVars, deps, az, players>>
    /\ UNCHANGED <<modState, registry, commands, events, botListeners, busListeners,
                   disabled, subscriptions, subscribing, ready, nextId>>

(* ------------------------ data store: subscribe ------------------------ *)

\* CouchDataStore.ensureReady (module.ts:386-389): a resolved promise when ready,
\* otherwise a promise resolved by the next 'connected' event of _emitter
EnsureReady == IF ready THEN "tick" ELSE "connected"

\* CouchDataStore.subscribe up to its `await this.ensureReady()`; id names the
\* promise it returns and the DataSubscription it will create
SubscribeCall(id, key, handler, caller) ==
    Append(subscribing, [id |-> id, key |-> key, handler |-> handler,
                         wait |-> EnsureReady, caller |-> caller])

\* module.ts:416-419: the rest of subscribe, run when ensureReady's promise resolved
SubscribePush(i) ==
    Append(subscriptions, [id |-> subscribing[i].id, key |-> subscribing[i].key,
                           handler |-> subscribing[i].handler])

(* ----------------------- registerEvent / unregisterEvent --------------- *)

ModuleEvent(name, id, m, h) ==
    [name |-> name,
     evName |-> IF ModuleEventType(name) = "Discord" THEN EvName(name) ELSE <<>>,
     handler |-> IF ModuleEventType(name) = "DataStore" THEN NoListener
                 ELSE Wrapper(id, m, h),
     sub |-> IF ModuleEventType(name) = "DataStore" THEN id ELSE 0,
     originalHandler |-> h,
     type |-> ModuleEventType(name)]

\* what registerEvent attaches to the framework bus (module.ts:177)
BusListenerOf(id, m, h) == RawListener(h, m)

\* Module.registerEvent (module.ts:134-185)
RegisterEvent(m, name, h) ==
    /\ Alive(m)
    /\ nextId < MaxRegs
    /\ LET id == nextId + 1
           t == ModuleEventType(name)
       IN  /\ nextId' = id
           /\ events' = [events EXCEPT ![m] = Append(@, ModuleEvent(name, id, m, h))]
           /\ botListeners' = IF t = "Discord"
                THEN [botListeners EXCEPT ![EvName(name)] = Append(@, Wrapper(id, m, h))]
                ELSE botListeners
           /\ subscribing' = IF t = "DataStore"
                THEN SubscribeCall(id, EvName(name), Wrapper(id, m, h), m)
                ELSE subscribing
           /\ busListeners' = IF t = "Azarasi"
                THEN [busListeners EXCEPT ![name] = Append(@, BusListenerOf(id, m, h))]
                ELSE busListeners
    /\ last' = NoLast
    /\ UNCHANGED <<storeVars, deps, az, players>>
    /\ UNCHANGED <<modState, registry, commands, disabled, inflight, subscriptions, ready>>

\* module.ts:199-201: the records unregisterEvent(name, handler) selects
Matching(evs, name, handler) ==
    SelectSeq(evs, LAMBDA e : e.name = name
                              /\ (e.originalHandler = handler \/ handler = NoHandler))

\* module.ts:201-215: the forEach over the selected records.  st holds the
\* module's events, both emitters' listeners and the error raised.  The sub of a
\* DataStore record is the promise subscribe() returned, which has no off: the
\* call e.sub.off() raises a TypeError that ends the forEach.
RECURSIVE Unregister(_, _)
Unregister(todo, st) ==
    IF todo = <<>> THEN st
    ELSE LET e == Head(todo)
             spliced == RemoveAt(st.ev, IndexFrom(st.ev, e, 1))
         IN  IF e.type = "DataStore"
             THEN [st EXCEPT !.err = "TypeError"]
             ELSE IF e.type = "Discord"
             THEN Unregister(Tail(todo),
                     [st EXCEPT !.bot[e.evName] = RemoveListener(@, e.handler),
                                !.ev = spliced])
             ELSE Unregister(Tail(todo),
                     [st EXCEPT !.bus[e.name] = RemoveListener(@, e.handler),
                                !.ev = spliced])

UnregisterEventResult(m, name, handler) ==
    Unregister(Matching(events[m], name, handler),
               [ev |-> events[m], bot |-> botListeners, bus |-> busListeners,
                err |-> "none"])

\* Module.unregisterEvent (module.ts:198-216); handler = NoHandler when omitted
UnregisterEvent(m, name, handler) ==
    /\ Alive(m)
    /\ LET r == UnregisterEventResult(m, name, handler)
       IN  /\ events' = [events EXCEPT ![m] = r.ev]
           /\ botListeners' = r.bot
           /\ busListeners' = r.bus
           /\ last' = [NoLast EXCEPT !.op = "unregisterEvent", !.err = r.err]
    /\ UNCHANGED <<storeVars, deps, az, players>>
    /\ UNCHANGED <<modState, registry, commands, disabled, inflight, subscriptions,
                   subscribing, ready, nextId>>

(* --------------------------- module lifecycle -------------------------- *)

\* the loader constructs the Module (module.ts:11, 28, 30) and runs init()
Load(m) ==
    /\ modState[m] = "Unloaded"
    /\ modState' = [modState EXCEPT ![m] = "Loading"]
    /\ events' = [events EXCEPT ![m] = <<>>]
    /\ commands' = [commands EXCEPT ![m] = {}]
    /\ last' = NoLast
    /\ UNCHANGED <<storeVars, deps, az, players>>
    /\ UNCHANGED <<registry, botListeners, busListeners, disabled, inflight,
                   subscriptions, subscribing, ready, nextId>>

\* init() returned
InitDone(m) ==
    /\ modState[m] \in {"Loading", "Reloading"}
    /\ modState' = [modState EXCEPT ![m] = "Loaded"]
    /\ last' = NoLast
    /\ UNCHANGED <<storeVars, deps, az, players>>
    /\ UNCHANGED <<registry, commands, events, botListeners, busListeners, disabled,
                   inflight, subscriptions, subscribing, ready, nextId>>

\* teardown: unregisterEvent(name) for the name of every binding held, an error
\* of one call not stopping the next
RECURSIVE TeardownEvents(_, _)
TeardownEvents(names, st) ==
    IF names = <<>> THEN st
    ELSE LET r == Unregister(Matching(st.ev, Head(names), NoHandler),
                             [st EXCEPT !.err = "none"])
         IN  TeardownEvents(Tail(names), r)

\* teardown: unregisterCommand for every command of the module's map
RECURSIVE TeardownCommands(_, _, _)
TeardownCommands(m, reg, cmds) ==
    IF cmds = {} THEN [reg |-> reg, cmds |-> cmds]
    ELSE LET n == CHOOSE x \in cmds : TRUE
             r == UnregisterCommandResult(m, n, reg, cmds)
         IN  IF n \in r.cmds THEN [reg |-> r.reg, cmds |-> r.cmds]
             ELSE TeardownCommands(m, r.reg, r.cmds)

\* the teardown of one module over st, the registry, the modules' command maps
\* and event lists and both emitters' listeners
Teardown(m, st) ==
    LET names == [j \in 1..Len(st.events[m]) |-> st.events[m][j].name]
        r == TeardownEvents(names, [ev |-> st.events[m], bot |-> st.bot,
                                    bus |-> st.bus, err |-> "none"])
        c == TeardownCommands(m, st.registry, st.commands[m])
    IN  [events |-> [st.events EXCEPT ![m] = r.ev], bot |-> r.bot, bus |-> r.bus,
         registry |-> c.reg, commands |-> [st.commands EXCEPT ![m] = c.cmds]]

RouterNow ==
    [events |-> events, bot |-> botListeners, bus |-> busListeners,
     registry |-> registry, commands |-> commands]

\* the resident, running modules that declared a dependency on m
ActiveDependents(m) == {a \in Modules : <<a, m>> \in deps /\ Alive(a)}

\* the edges left when the modules of S stop being dependents
WithoutDependents(S) == {e \in deps : e[1] \notin S}

\* the loader unloads the module: shutdown(), then the teardown; refused
\* while a dependent is active
Unload(m) ==
    /\ modState[m] = "Loaded"
    /\ IF ActiveDependents(m) # {}
       THEN /\ last' = [NoLast EXCEPT !.op = "unload", !.src = m,
                                      !.err = "DependentsActive"]
            /\ UNCHANGED <<modState, events, botListeners, busListeners, registry,
                           commands, deps>>
       ELSE LET r == Teardown(m, RouterNow)
            IN  /\ modState' = [modState EXCEPT ![m] = "Unloaded"]
                /\ events' = r.events
                /\ botListeners' = r.bot
                /\ busListeners' = r.bus
                /\ registry' = r.registry
                /\ commands' = r.commands
                /\ deps' = WithoutDependents({m})
                /\ last' = NoLast
    /\ UNCHANGED <<storeVars, az, players>>
    /\ UNCHANGED <<disabled, inflight, subscriptions, subscribing, ready, nextId>>

\* the order of a cascading unload: every active dependent before the module
\* it depends on
RECURSIVE Visit(_, _)
RECURSIVE VisitAll(_, _)
Visit(m, st) ==
    IF m \in st.seen THEN st
    ELSE LET st1 == VisitAll(ActiveDependents(m), [st EXCEPT !.seen = @ \cup {m}])
         IN  [st1 EXCEPT !.order = Append(@, m)]
VisitAll(S, st) ==
    IF S = {} THEN st
    ELSE LET a == CHOOSE x \in S : TRUE
         IN  VisitAll(S \ {a}, Visit(a, st))

UnloadOrder(m) == Visit(m, [seen |-> {}, order |-> <<>>]).order

RECURSIVE TeardownAll(_, _)
TeardownAll(order, st) ==
    IF order = <<>> THEN st
    ELSE TeardownAll(Tail(order), Teardown(Head(order), st))

\* force-unload: the dependents are unloaded first, then the module
ForceUnload(m) ==
    /\ modState[m] = "Loaded"
    /\ LET order == UnloadOrder(m)
           gone == {order[k] : k \in 1..Len(order)}
           r == TeardownAll(order, RouterNow)
       IN  /\ modState' = [x \in Modules |-> IF x \in gone THEN "Unloaded"
                                             ELSE modState[x]]
           /\ events' = r.events
           /\ botListeners' = r.bot
           /\ busListeners' = r.bus
           /\ registry' = r.registry
           /\ commands' = r.commands
           /\ deps' = WithoutDependents(gone)
           /\ last' = [NoLast EXCEPT !.op = "forceUnload", !.src = m, !.key = order]
    /\ UNCHANGED <<storeVars, az, players>>
    /\ UNCHANGED <<disabled, inflight, subscriptions, subscribing, ready, nextId>>

\* init() threw: the loader removes what the module registered so far, keeps
\* it resident as Errored and hands the failure to its caller
InitFail(m) ==
    /\ modState[m] \in {"Loading", "Reloading"}
    /\ LET r == Teardown(m, RouterNow)
       IN  /\ events' = r.events
           /\ botListeners' = r.bot
           /\ busListeners' = r.bus
           /\ registry' = r.registry
           /\ commands' = r.commands
    /\ modState' = [modState EXCEPT ![m] = "Errored"]
    /\ deps' = WithoutDependents({m})
    /\ last' = [NoLast EXCEPT !.op = "load", !.src = m, !.err = "InitError"]
    /\ UNCHANGED <<storeVars, az, players>>
    /\ UNCHANGED <<disabled, inflight, subscriptions, subscribing, ready, nextId>>

\* reload: the unload, then the load of a new instance under the same id
Reload(m) ==
    /\ modState[m] = "Loaded"
    /\ IF ActiveDependents(m) # {}
       THEN /\ last' = [NoLast EXCEPT !.op = "reload", !.src = m,
                                      !.err = "DependentsActive"]
            /\ UNCHANGED <<modState, events, botListeners, busListeners, registry,
                           commands, deps>>
       ELSE LET r == Teardown(m, RouterNow)
            IN  /\ modState' = [modState EXCEPT ![m] = "Reloading"]
                /\ events' = [r.events EXCEPT ![m] = <<>>]
                /\ botListeners' = r.bot
                /\ busListeners' = r.bus
                /\ registry' = r.registry
                /\ commands' = [r.commands EXCEPT ![m] = {}]
                /\ deps' = WithoutDependents({m})
                /\ last' = [NoLast EXCEPT !.op = "reload", !.src = m]
    /\ UNCHANGED <<storeVars, az, players>>
    /\ UNCHANGED <<disabled, inflight, subscriptions, subscribing, ready, nextId>>

\* a registerDependency that records the edge whatever the dependency's state
RegisterDependencyUnchecked(m, d) == TRUE

\* ModuleManager.registerDependency: the dependency has to be loaded
RegisterDependency(m, d) == modState[d] = "Loaded"

\* Module.requireModule (module.ts:222-225)
RequireModule(m, d) ==
    /\ Alive(m)
    /\ IF RegisterDependency(m, d)
       THEN /\ deps' = deps \cup {<<m, d>>}
            /\ last' = [NoLast EXCEPT !.op = "requireModule", !.src = m]
       ELSE /\ deps' = deps
            /\ last' = [NoLast EXCEPT !.op = "requireModule", !.src = m,
                                      !.err = "UnknownModule"]
    /\ UNCHANGED <<storeVars, az, players>>
    /\ UNCHANGED <<modState, registry, commands, events, botListeners, busListeners,
                   disabled, inflight, subscriptions, subscribing, ready, nextId>>

(* ------------------------- data store readiness ------------------------ *)

\* `ready` is a public field of the store (module.ts:337) that no method of
\* the class assigns; its owner sets it
MarkReady ==
    /\ ~ready
    /\ ready' = TRUE
    /\ last' = NoLast
    /\ UNCHANGED <<storeVars, deps, az, players>>
    /\ UNCHANGED <<routerVars, subscriptions, subscribing, nextId>>

\* a subscribe() whose ensureReady promise was already resolved runs on
SubscribeResume(i) ==
    /\ i \in 1..Len(subscribing)
    /\ subscribing[i].wait = "tick"
    /\ subscriptions' = SubscribePush(i)
    /\ subscribing' = RemoveAt(subscribing, i)
    /\ offCalls' = IF subscribing[i].caller = NoMod
                   THEN offCalls @@ (subscribing[i].id :> 0)
                   ELSE offCalls
    /\ last' = NoLast
    /\ UNCHANGED <<feed, db, anon, ops, deps, az, players>>
    /\ UNCHANGED <<modState, registry, commands, events, botListeners, busListeners,
                   disabled, inflight, ready, nextId>>

(* ---------------------- data store: connect, off ----------------------- *)

\* CouchDataStore.connect (module.ts:357-384): follows the change feed.  It
\* assigns neither `connected` nor `ready` and emits nothing on _emitter.
Connect ==
    /\ feed = "none"
    /\ feed' = "following"
    /\ last' = NoLast
    /\ UNCHANGED <<routerVars, subscriptions, subscribing, ready, nextId,
                   db, anon, ops, offCalls>>

\* CouchDataStore.subscribe(key, h) called by a direct user of the store
Subscribe(key, h) ==
    /\ nextId < MaxRegs
    /\ nextId' = nextId + 1
    /\ subscribing' = SubscribeCall(nextId + 1, key, RawListener(h, NoMod), NoMod)
    /\ last' = NoLast
    /\ UNCHANGED <<routerVars, subscriptions, ready, storeVars>>

\* module.ts:417, `this.subscriptions.splice(this.subscriptions.indexOf(sub, 1))`:
\* indexOf searches from the second element on, splice with one argument
\* removes from that index to the end, and from the last element when the
\* index is -1
OffResult(subs, id) ==
    LET ids == [j \in 1..Len(subs) |-> subs[j].id]
        i == IndexFrom(ids, id, 2)
    IN  IF i = 0 THEN SubSeq(subs, 1, Len(subs) - 1)
        ELSE SubSeq(subs, 1, i - 1)

\* the holder of DataSubscription id calls its off()
Off(id) ==
    /\ id \in DOMAIN offCalls
    /\ offCalls[id] < MaxOff
    /\ subscriptions' = OffResult(subscriptions, id)
    /\ offCalls' = [offCalls EXCEPT ![id] = @ + 1]
    /\ last' = [NoLast EXCEPT !.op = "off"]
    /\ UNCHANGED <<routerVars, subscribing, ready, nextId, feed, db, anon, ops>>

(* ----------------------- data store: get, set, del --------------------- *)

\* a call of get, set or del up to its first ensureReady(): set awaits its own
\* (module.ts:402), get and del the one at the head of get (module.ts:392)
Issue(kind, key, val) ==
    /\ Len(ops) < MaxOps
    /\ ops' = Append(ops, [kind |-> kind, key |-> key, val |-> val, pc |-> "ready",
                           wait |-> EnsureReady, orig |-> Absent, fault |-> "none"])
    /\ last' = NoLast
    /\ UNCHANGED <<routerVars, subscriptions, subscribing, ready, nextId,
                   feed, db, anon, offCalls>>

\* get(key, raw) once db.get answered (module.ts:393-398): the document, or
\* { val: null } when db.get threw
GetDoc(key) == db[key]

\* what a request to the backend meets: an answer, or a connection or
\* operation failure
Faults == {"none", "unavailable"}

\* a get that hands on what db.get met instead of catching it
Uncaught(key, fault) ==
    IF fault = "none" THEN [rev |-> db[key].rev, val |-> IF db[key].rev = 0 THEN "not_found" ELSE db[key].val]
    ELSE [rev |-> 0, val |-> fault]

\* get's try / catch (module.ts:393-398): the document db.get answered with,
\* and { val: null } for whatever db.get threw
Caught(key, fault) == IF fault = "none" THEN GetDoc(key) ELSE Absent

\* the operation's db.get is answered or fails: get returns d.val; set and del
\* keep the raw document as orig
OpRead(i) ==
    /\ i \in 1..Len(ops)
    /\ ops[i].pc = "ready"
    /\ ops[i].wait = "tick"
    /\ \E f \in Faults :
         IF ops[i].kind = "get"
         THEN /\ ops' = RemoveAt(ops, i)
              /\ last' = [NoLast EXCEPT !.op = "get", !.key = ops[i].key,
                                        !.val = Caught(ops[i].key, f).val,
                                        !.fault = f]
         ELSE /\ ops' = [ops EXCEPT ![i].pc = "write",
                                    ![i].orig = Caught(ops[i].key, f),
                                    ![i].fault = f]
              /\ last' = NoLast
    /\ UNCHANGED <<routerVars, subscriptions, subscribing, ready, nextId,
                   feed, db, anon, offCalls>>

\* set's db.insert({ ...orig, val }) (module.ts:404): orig without _id and _rev
\* makes CouchDB store a new document under an id it generates; with them the
\* document is updated when the revision is still current, else 409
Insert(o) ==
    IF o.orig.rev = 0
    THEN [db |-> db, anon |-> anon \cup {o.val}, err |-> "none"]
    ELSE IF db[o.key].rev = o.orig.rev
    THEN [db |-> [db EXCEPT ![o.key] = [rev |-> o.orig.rev + 1, val |-> o.val]],
          anon |-> anon, err |-> "none"]
    ELSE [db |-> db, anon |-> anon, err |-> "conflict"]

\* del's db.destroy(key, orig._rev) (module.ts:410): no revision when orig is
\* { val: null }
Destroy(o) ==
    IF o.orig.rev = 0
    THEN [db |-> db, anon |-> anon,
          err |-> IF db[o.key].rev = 0 THEN "not_found" ELSE "conflict"]
    ELSE IF db[o.key].rev = o.orig.rev
    THEN [db |-> [db EXCEPT ![o.key] = Absent], anon |-> anon, err |-> "none"]
    ELSE [db |-> db, anon |-> anon, err |-> "conflict"]

\* a write the backend does not carry out: the awaited promise rejects
Failed == [db |-> db, anon |-> anon, err |-> "unavailable"]

\* the operation's write is answered or fails, and the call returns 'OK' or
\* rejects; fault tells whether a request of the call met a failure
OpWrite(i) ==
    /\ i \in 1..Len(ops)
    /\ ops[i].pc = "write"
    /\ ops[i].kind = "set" => ops[i].orig.rev < MaxRev
    /\ \E f \in Faults :
         LET r == IF f # "none" THEN Failed
                  ELSE IF ops[i].kind = "set" THEN Insert(ops[i]) ELSE Destroy(ops[i])
         IN  /\ db' = r.db
             /\ anon' = r.anon
             /\ last' = [NoLast EXCEPT !.op = ops[i].kind, !.key = ops[i].key,
                            !.val = ops[i].val, !.err = r.err,
                            !.fault = IF f # "none" THEN f ELSE ops[i].fault]
    /\ ops' = RemoveAt(ops, i)
    /\ UNCHANGED <<routerVars, subscriptions, subscribing, ready, nextId,
                   feed, offCalls>>

(* --------------------------- message dispatch -------------------------- *)

\* the bot's prefix (examples/JavaScript/main.js:5), as its characters
Prefix == <<"-", "-">>

\* message texts, as their characters
Texts == { <<"-", "-", "p", "i", "n", "g">>, <<"p", "i", "n", "g">>,
           <<"-", "-", "P", "I", "N", "G">>, <<"-", "-", "p", "o", "n", "g">>,
           <<"-", "-", "p", "i", "n", "g", " ", "x">>, <<"-", "p", "i", "n", "g">> }

\* message authors: their id is their standing
Authors == {"user", "dj", "admin", "owner", "banned"}
\* properties.blacklist
Blacklist == {"banned"}

Messages == [text : Texts, author : Authors, guild : Guilds \cup {NoGuild}]

\* the characters of a registered literal name
Spelling(n) == IF n = "ping" THEN <<"p", "i", "n", "g">> ELSE <<"p", "o", "n", "g">>

LowerChar(c) ==
    CASE c = "P" -> "p" [] c = "I" -> "i" [] c = "N" -> "n" [] c = "G" -> "g"
      [] c = "O" -> "o" [] OTHER -> c

Lower(t) == [i \in 1..Len(t) |-> LowerChar(t[i])]

StartsWith(t, p) == Len(t) >= Len(p) /\ SubSeq(t, 1, Len(p)) = p

\* the text up to its first whitespace
RECURSIVE FirstToken(_)
FirstToken(t) ==
    IF t = <<>> \/ Head(t) = " " THEN <<>>
    ELSE <<Head(t)>> \o FirstToken(Tail(t))

\* levels in their order: Everyone < DJ < Admin < Owner
Everyone == 0
DJ == 1
Admin == 2
Owner == 3
Levels == {Everyone, DJ, Admin, Owner}

\* the configured lists; an actor may be on more than one
OwnerList == {"owner"}
AdminList == {"admin", "owner"}
DJList == {"dj", "admin"}

\* the levels an actor attains
Attained(a) ==
    {Everyone} \cup (IF a \in DJList THEN {DJ} ELSE {})
               \cup (IF a \in AdminList THEN {Admin} ELSE {})
               \cup (IF a \in OwnerList THEN {Owner} ELSE {})

\* the highest level the actor attains
AuthorLevel(a) == CHOOSE l \in Attained(a) : \A k \in Attained(a) : k <= l
RequiredLevel(n) == IF n = "ping" THEN Everyone ELSE Admin

\* PermissionEvaluator.check
Check(a, required) == AuthorLevel(a) >= required

\* a check that lets every actor through
AllowedAlways(a, n) == TRUE

Allowed(a, n) == Check(a, RequiredLevel(n))

\* the registered literal command a token names, if any
Resolve(tok) ==
    { n \in CmdNames : registry[n] # NoMod /\ Spelling(n) = Lower(tok) }

\* CommandManager.processMessage: the command whose handler is invoked for
\* msg, or NoVal when nothing is dispatched
Dispatched(msg) ==
    IF ~StartsWith(msg.text, Prefix) THEN NoVal
    ELSE LET found == Resolve(FirstToken(SubSeq(msg.text, Len(Prefix) + 1, Len(msg.text))))
         IN  IF found = {} THEN NoVal
             ELSE LET n == CHOOSE x \in found : TRUE
                  IN  IF ~Allowed(msg.author, n) THEN NoVal
                      ELSE IF msg.guild # NoGuild
                              /\ IsModuleDisabledForGuild(msg.guild, registry[n])
                      THEN NoVal
                      ELSE n

\* a processMessage that drops the messages of everyone but the blacklisted
ProcessMessageInverted(msg) ==
    /\ last' = [NoLast EXCEPT !.op = "processMessage", !.src = msg.author,
                              !.key = msg.text, !.guild = msg.guild,
                              !.val = IF msg.author \notin Blacklist THEN NoVal
                                      ELSE Dispatched(msg)]
    /\ UNCHANGED <<routerVars, subscriptions, subscribing, ready, nextId, storeVars>>

\* new Azarasi(properties), in either version of the class
New(version, properties) ==
    /\ az' = Constructor(version, properties)
    /\ last' = [NoLast EXCEPT !.op = "new", !.src = version,
                              !.err = Constructor(version, properties).err]
    /\ UNCHANGED <<modState, registry, commands, events, botListeners, busListeners,
                   disabled, inflight, deps, players>>
    /\ UNCHANGED <<subscriptions, subscribing, ready, nextId, storeVars>>

\* index.js:144: properties.blacklist is set and indexOf finds the author
Blacklisted(properties, author) ==
    properties.blacklist.set /\ IndexFrom(properties.blacklist.ids, author, 1) > 0

\* a processMessage that hands every message on
ProcessMessageUnfiltered(msg) ==
    /\ last' = [NoLast EXCEPT !.op = "processMessage", !.src = msg.author,
                              !.key = msg.text, !.guild = msg.guild,
                              !.entered = 1, !.val = Dispatched(msg)]
    /\ UNCHANGED <<routerVars, subscriptions, subscribing, ready, nextId, storeVars>>

\* Azarasi.processMessage (index.js:142-148): a blacklisted author's message
\* is dropped, any other goes to the command manager; entered counts the
\* calls of commands.processMessage
ProcessMessage(msg) ==
    /\ last' = IF Blacklisted(az.properties, msg.author)
               THEN [NoLast EXCEPT !.op = "processMessage", !.src = msg.author,
                                   !.key = msg.text, !.guild = msg.guild]
               ELSE [NoLast EXCEPT !.op = "processMessage", !.src = msg.author,
                                   !.key = msg.text, !.guild = msg.guild,
                                   !.entered = 1, !.val = Dispatched(msg)]
    /\ UNCHANGED <<routerVars, subscriptions, subscribing, ready, nextId, storeVars>>

\* the gateway delivers a message to the instance's 'message' listener
\* (index.js:112)
OnMessage(msg) ==
    /\ "message" \in az.listeners
    /\ ProcessMessage(msg)

(* ------------------------ audio player: operations --------------------- *)

\* AudioPlayer.getForGuild (docs/audioPlayer.js.html:165-168)
GetForGuild(g) ==
    /\ ~players[g].made
    /\ players' = [players EXCEPT ![g] = NewPlayer]
    /\ last' = [NoLast EXCEPT !.op = "getForGuild", !.guild = g]
    /\ UNCHANGED <<modState, registry, commands, events, botListeners, busListeners,
                   disabled, inflight, deps, az>>
    /\ UNCHANGED <<subscriptions, subscribing, ready, nextId, storeVars>>

\* docs/audioPlayer.js.html:64: the test play() makes before joining
Playing(pl) == pl.currentStream # 0

\* AudioPlayer.play up to `await this.join(voiceChannel)`
\* (docs/audioPlayer.js.html:63-67)
Play(g) ==
    /\ players[g].made
    /\ players[g].started < MaxPlays
    /\ IF Playing(players[g])
       THEN /\ players' = players
            /\ last' = [NoLast EXCEPT !.op = "play", !.guild = g, !.err = "Playing"]
       ELSE /\ players' = [players EXCEPT ![g].started = @ + 1,
                                          ![g].joining = @ \cup {players[g].started + 1}]
            /\ last' = [NoLast EXCEPT !.op = "play", !.guild = g]
    /\ UNCHANGED <<modState, registry, commands, events, botListeners, busListeners,
                   disabled, inflight, deps, az>>
    /\ UNCHANGED <<subscriptions, subscribing, ready, nextId, storeVars>>

\* the join of play call k resolved: the rest of play
\* (docs/audioPlayer.js.html:67-110, 117-120).  The connection may end the
\* stream it was playing when it is given a new one, or leave it.
Joined(g, k) ==
    /\ k \in players[g].joining
    /\ \E replace \in BOOLEAN :
          LET pl == players[g]
              old == pl.currentStream
              spawned == [pl EXCEPT !.joining = @ \ {k}, !.voiceConnection = TRUE,
                                    !.procs[k] = "live", !.ffmpegProcess = k]
              handed == IF replace /\ old # 0 /\ pl.streams[old] = "playing"
                        THEN EmitEnd(spawned, old) ELSE spawned
          IN  players' = [players EXCEPT ![g] =
                             [handed EXCEPT !.currentStream = k,
                                            !.streams[k] = "playing",
                                            !.onEnd[k] = TRUE]]
    /\ last' = [NoLast EXCEPT !.op = "joined", !.guild = g]
    /\ UNCHANGED <<modState, registry, commands, events, botListeners, busListeners,
                   disabled, inflight, deps, az>>
    /\ UNCHANGED <<subscriptions, subscribing, ready, nextId, storeVars>>

\* the join of play call k failed: play rejects before it starts anything
JoinFailed(g, k) ==
    /\ k \in players[g].joining
    /\ players' = [players EXCEPT ![g].joining = @ \ {k}]
    /\ last' = [NoLast EXCEPT !.op = "joined", !.guild = g, !.err = "JoinError"]
    /\ UNCHANGED <<modState, registry, commands, events, botListeners, busListeners,
                   disabled, inflight, deps, az>>
    /\ UNCHANGED <<subscriptions, subscribing, ready, nextId, storeVars>>

\* stream k comes to its end and emits 'end'
StreamEnd(g, k) ==
    /\ players[g].streams[k] = "playing"
    /\ players' = [players EXCEPT ![g] = EmitEnd(@, k)]
    /\ last' = [NoLast EXCEPT !.op = "end", !.guild = g]
    /\ UNCHANGED <<modState, registry, commands, events, botListeners, busListeners,
                   disabled, inflight, deps, az>>
    /\ UNCHANGED <<subscriptions, subscribing, ready, nextId, storeVars>>

\* AudioPlayer.stop (docs/audioPlayer.js.html:127-133): with no current
\* stream the try block raises a TypeError that is caught
Stop(g, disconnect, removeEvents) ==
    /\ players[g].made
    /\ LET pl == players[g]
           cs == pl.currentStream
           unheard == IF removeEvents THEN [pl EXCEPT !.onEnd[cs] = FALSE] ELSE pl
           ended == IF cs = 0 THEN pl
                    ELSE IF pl.streams[cs] = "playing" THEN EmitEnd(unheard, cs)
                    ELSE unheard
       IN  players' = [players EXCEPT ![g] = Clean(ended, disconnect)]
    /\ last' = [NoLast EXCEPT !.op = "stop", !.guild = g]
    /\ UNCHANGED <<modState, registry, commands, events, botListeners, busListeners,
                   disabled, inflight, deps, az>>
    /\ UNCHANGED <<subscriptions, subscribing, ready, nextId, storeVars>>

(* ---------------------------- specifications --------------------------- *)

\* the store of the router specifications: its database empty, no call made
StoreIdle ==
    /\ db = [k \in StoreKeys |-> Absent]
    /\ anon = {}
    /\ ops = <<>>
    /\ offCalls = <<>>

vars == <<modState, registry, commands, events, botListeners, busListeners,
          subscriptions, subscribing, ready, disabled, inflight, nextId, last,
          feed, db, anon, ops, offCalls, deps, az, players>>

\* Spec: the event router of a started bot: the modules are loaded and the
\* store's connect() has run
Init ==
    /\ modState = [m \in Modules |-> "Loaded"]
    /\ RouterInit
    /\ SharedInit
    /\ StoreIdle
    /\ feed = "following"

Next ==
    \/ \E m \in Modules, name \in EventNames, h \in RawHandlers :
          RegisterEvent(m, name, h)
    \/ \E m \in Modules, name \in EventNames, h \in RawHandlers \cup {NoHandler} :
          UnregisterEvent(m, name, h)
    \/ \E m \in Modules, g \in Guilds : DisableForGuild(m, g) \/ EnableForGuild(m, g)
    \/ \E ev \in BotEvents, g \in Payloads : EmitBot(ev, g)
    \/ \E name \in BusEvents, g \in Payloads : EmitBus(name, g)
    \/ \E key \in Channels, p \in Changes : FeedChange(key, p)
    \/ \E i \in 1..MaxInflight : ResumeWrapper(i)
    \/ MarkReady
    \/ \E i \in 1..MaxRegs : SubscribeResume(i)

Spec == Init /\ [][Next]_vars

\* LifeSpec: modules loaded and unloaded, registering commands and events
LifeInit ==
    /\ modState = [m \in Modules |-> "Unloaded"]
    /\ RouterInit
    /\ SharedInit
    /\ StoreIdle
    /\ feed = "none"

LifeNext ==
    \/ \E m \in Modules : Load(m) \/ InitDone(m) \/ Unload(m)
    \/ \E m \in Modules, n \in CmdNames : RegisterCommand(m, n) \/ UnregisterCommand(m, n)
    \/ \E m \in Modules, name \in EventNames, h \in RawHandlers :
          RegisterEvent(m, name, h)
    \/ \E m \in Modules, name \in EventNames, h \in RawHandlers \cup {NoHandler} :
          UnregisterEvent(m, name, h)
    \/ MarkReady
    \/ \E i \in 1..MaxRegs : SubscribeResume(i)

LifeSpec == LifeInit /\ [][LifeNext]_vars

\* CmdSpec: modules loaded and unloaded, registering commands and
\* unregistering them under any spelling
CmdNext ==
    \/ \E m \in Modules : Load(m) \/ InitDone(m) \/ Unload(m)
    \/ \E m \in Modules, n \in CmdNames : RegisterCommand(m, n)
    \/ \E m \in Modules, a \in CmdArgs : UnregisterCommand(m, a)

CmdSpec == LifeInit /\ [][CmdNext]_vars

\* BootSpec: instances constructed from any properties, the gateway
\* delivering messages to the one constructed last
BootInit ==
    /\ modState = [m \in Modules |-> "Unloaded"]
    /\ registry = EmptyRegistry
    /\ commands = [m \in Modules |-> {}]
    /\ events = [m \in Modules |-> <<>>]
    /\ botListeners = EmptyBot
    /\ busListeners = EmptyBus
    /\ disabled = {}
    /\ inflight = <<>>
    /\ deps = {}
    /\ az = NoInstance
    /\ players = NoPlayers
    /\ SharedInit
    /\ StoreIdle
    /\ feed = "none"

BootNext ==
    \/ \E version \in {"js", "ts"}, properties \in Properties : New(version, properties)
    \/ \E msg \in Messages : OnMessage(msg)

BootSpec == BootInit /\ [][BootNext]_vars

\* MirrorSpec: loaded modules registering and unregistering commands, under
\* any spelling, and events
MirrorNext ==
    \/ \E m \in Modules, n \in CmdNames : RegisterCommand(m, n)
    \/ \E m \in Modules, a \in CmdArgs : UnregisterCommand(m, a)
    \/ \E m \in Modules, name \in EventNames, h \in RawHandlers :
          RegisterEvent(m, name, h)
    \/ \E m \in Modules, name \in EventNames, h \in RawHandlers \cup {NoHandler} :
          UnregisterEvent(m, name, h)
    \/ MarkReady
    \/ \E i \in 1..MaxRegs : SubscribeResume(i)

MirrorSpec == Init /\ [][MirrorNext]_vars

\* LoaderSpec: the loader's operations over modules that register a command
\* and events and require each other
LoaderNext ==
    \/ \E m \in Modules : Load(m) \/ InitDone(m) \/ InitFail(m)
    \/ \E m \in Modules : Unload(m) \/ ForceUnload(m) \/ Reload(m)
    \/ \E m \in Modules : \E d \in Modules \ {m} : RequireModule(m, d)
    \/ \E m \in Modules : RegisterCommand(m, "ping")
    \/ \E m \in Modules, name \in EventNames : RegisterEvent(m, name, "h1")

LoaderSpec == LifeInit /\ [][LoaderNext]_vars

\* DispatchSpec: messages arriving while loaded modules register commands
\* and are disabled and enabled for guilds
DispatchInit ==
    /\ modState = [m \in Modules |-> "Loaded"]
    /\ RouterInit
    /\ SharedInit
    /\ StoreIdle
    /\ feed = "none"

DispatchNext ==
    \/ \E m \in Modules, n \in CmdNames : RegisterCommand(m, n) \/ UnregisterCommand(m, n)
    \/ \E m \in Modules, g \in Guilds : DisableForGuild(m, g) \/ EnableForGuild(m, g)
    \/ \E msg \in Messages : ProcessMessage(msg)

DispatchSpec == DispatchInit /\ [][DispatchNext]_vars

\* AudioSpec: the audio players of the guilds, played and stopped
AudioNext ==
    \/ \E g \in Guilds : GetForGuild(g) \/ Play(g)
    \/ \E g \in Guilds, k \in Plays : Joined(g, k) \/ JoinFailed(g, k) \/ StreamEnd(g, k)
    \/ \E g \in Guilds, disconnect \in BOOLEAN, removeEvents \in BOOLEAN :
          Stop(g, disconnect, removeEvents)

AudioSpec == DispatchInit /\ [][AudioNext]_vars

\* SubSpec: direct users of the store's subscriptions
SubInit ==
    /\ modState = [m \in Modules |-> "Unloaded"]
    /\ RouterInit
    /\ SharedInit
    /\ StoreIdle
    /\ feed = "none"

SubNext ==
    \/ Connect
    \/ MarkReady
    \/ \E key \in StoreKeys, h \in RawHandlers : Subscribe(key, h)
    \/ \E i \in 1..MaxRegs : SubscribeResume(i)
    \/ \E id \in 1..MaxRegs : Off(id)
    \/ \E key \in StoreKeys, p \in Changes : FeedChange(key, p)

SubSpec == SubInit /\ [][SubNext]_vars

\* StoreSpec: get, set and del against the database
StoreSpecInit ==
    /\ modState = [m \in Modules |-> "Unloaded"]
    /\ RouterInit
    /\ SharedInit
    /\ StoreInit

StoreNext ==
    \/ Connect
    \/ MarkReady
    \/ \E key \in StoreKeys : Issue("get", key, NoVal) \/ Issue("del", key, NoVal)
    \/ \E key \in StoreKeys, v \in Vals : Issue("set", key, v)
    \/ \E i \in 1..MaxOps : OpRead(i) \/ OpWrite(i)

StoreSpec == StoreSpecInit /\ [][StoreNext]_vars

\* every started operation takes its next step whenever it can; nothing
\* obliges the owner of the store to call connect or to assign ready
FairStoreSpec ==
    StoreSpec /\ \A i \in 1..MaxOps : WF_vars(OpRead(i)) /\ WF_vars(OpWrite(i))

\* SetSpec: the store used by callers that only read and write
SetNext ==
    \/ MarkReady
    \/ \E key \in StoreKeys : Issue("get", key, NoVal)
    \/ \E key \in StoreKeys, v \in Vals : Issue("set", key, v)
    \/ \E i \in 1..MaxOps : OpRead(i) \/ OpWrite(i)

SetSpec == StoreSpecInit /\ [][SetNext]_vars

(* ------------------------------- claims -------------------------------- *)

Calls == { last.calls[j] : j \in 1..Len(last.calls) }

\* module m holds a binding record of user handler h for the event `key` of `src`
HoldsBinding(m, src, key, h) ==
    \E j \in 1..Len(events[m]) :
        /\ events[m][j].type = src
        /\ SourceKey(events[m][j].name) = key
        /\ events[m][j].originalHandler = h

\* module m holds the binding record created together with wrapper closure w
HoldsWrapper(m, w) ==
    \E j \in 1..Len(events[m]) :
        events[m][j].handler.id = w \/ events[m][j].sub = w

\* the modules on whose behalf a call was made
Owners(c) ==
    IF c.w > 0 THEN {c.mod}
    ELSE { m \in Modules : HoldsBinding(m, c.src, c.key, c.h) }

\* C1: once registerEvent(name, h) was followed by unregisterEvent(name, h), no
\* event emitted later on the name's source invokes h: an emitted event invokes
\* a user handler only while some module still holds a binding of it there.
C1_NoCallAfterUnregister ==
    \A c \in Calls :
        ~c.late => \E m \in Modules : HoldsBinding(m, c.src, c.key, c.h)

C8_NoCallAfterCancelInFlight ==
    \A c \in Calls :
        c.late => \E m \in Modules : HoldsWrapper(m, c.w)

\* C9: an exception thrown by one handler does not reach the emitter of the
\* event, and every other handler bound to the event is still invoked.
C9_HandlerFailureContained ==
    last.op = "emit" => (last.err = "none" /\ last.entered = last.bound)

\* C10: a handler subscribed to a key observes two successive changes of the
\* key in the order they happened, also when it is bound through registerEvent:
\* a change reaches the handler inside the fan-out of that change, never after
\* a suspension that a later change of the key could overtake.
C10_PerKeyOrder ==
    \A c \in Calls : c.src = "DataStore" => (~c.late /\ ~c.overtaken)

\* a change has reached a handler bound through registerEvent
C10_Witness ==
    \E c \in Calls : c.src = "DataStore" /\ c.w > 0 /\ c.val \in Vals

\* nothing that module m attached is left in the registry, on the emitters or
\* in the subscription table
NothingLeftOf(m) ==
    /\ \A n \in CmdNames : registry[n] # m
    /\ \A ev \in BotEvents : \A j \in 1..Len(botListeners[ev]) : botListeners[ev][j].by # m
    /\ \A name \in BusEvents :
          \A j \in 1..Len(busListeners[name]) : busListeners[name][j].by # m
    /\ \A j \in 1..Len(subscriptions) : subscriptions[j].handler.by # m

\* C7: a module's load followed by its unload leaves the command registry, the
\* gateway emitter's listeners, the framework bus's listeners and the data
\* store's subscription table as they were before the load: once the module is
\* unloaded, none of them holds anything the module attached.
C7_LoadUnloadRestores ==
    \A m \in Modules : modState[m] = "Unloaded" => NothingLeftOf(m)

\* C3: once off() was called on the subscription of h to k, no later change
\* of k invokes h through it, wherever the subscription stood in the table.
C3_NoCallAfterOff ==
    \A c \in Calls :
        (c.src = "DataStore" /\ c.via \in DOMAIN offCalls) => offCalls[c.via] = 0

\* C4: a second off() on the same subscription changes nothing: the table of
\* the other subscriptions stays as the first call left it.
C4_SecondOffNoOp ==
    [][\A id \in DOMAIN offCalls :
          (offCalls[id] >= 1 /\ offCalls'[id] = offCalls[id] + 1)
              => subscriptions' = subscriptions]_vars

\* C5: when set(k, v) has completed with its confirmation, get(k) returns v,
\* whether k held a document before or not.
C5_SetGetRoundTrip ==
    (last.op = "set" /\ last.err = "none") => GetDoc(last.key).val = last.val

\* an operation is suspended at ensureReady() on the 'connected' event
Deferred == \E i \in 1..Len(ops) : ops[i].wait = "connected"

\* C6: an operation issued before the store is ready is deferred, and once
\* the connection is established it completes.
C6_DeferredOpsComplete ==
    (Deferred /\ feed = "following") ~> ~Deferred

\* C11: two set calls on the same key interleaved at their asynchronous steps
\* both complete with their confirmation: among callers that only get and set,
\* no set is rejected while the backend answers every request.
C11_ConcurrentSetsConfirm ==
    (last.op = "set" /\ last.fault = "none") => last.err = "none"

\* C16: an operation one of whose requests met an unavailable backend is
\* rejected; get does not answer a failed read like an absent value.
C16_FailureSurfaced ==
    last.fault # "none" => last.err # "none"

\* C12: unregisterEvent(name, h) raises no error in any namespace, neither for
\* a binding that exists nor when it is called again.
C12_UnregisterNeverRaises ==
    last.op = "unregisterEvent" => last.err = "none"

C14_GetAbsentIsNull ==
    (last.op = "get" /\ db[last.key] = Absent)
        => (last.val = Null /\ last.err = "none")

\* a get of a key with no document has completed
C14_Witness ==
    last.op = "get" /\ db[last.key] = Absent /\ last.fault = "none"

\* C15: del(k) completes with its confirmation and leaves no value at k,
\* whether k held a document before or not.
C15_DelConfirms ==
    (last.op = "del" /\ last.fault = "none")
        => (last.err = "none" /\ GetDoc(last.key).val = Null)

\* C17: registering a command under a name that is already registered is
\* rejected without an exception leaving registerCommand: the registry and
\* every module's map stay as they were, and no step hands a registered name
\* to another module.
C17_DuplicateRejected ==
    [][/\ \A n \in CmdNames :
             registry[n] # NoMod => registry'[n] \in {registry[n], NoMod}
       /\ (last'.op = "registerCommand" /\ last'.err = "DuplicateTrigger")
             => (registry' = registry /\ commands' = commands)]_vars

\* a duplicate registration has been rejected
C17_Witness ==
    /\ last.op = "registerCommand"
    /\ last.err = "DuplicateTrigger"
    /\ \E n \in CmdNames : registry[n] # NoMod

\* C18: unregisterCommand(a) called on module m removes the command from the
\* registry and from m's map when m owns it, and changes neither the registry
\* nor any module's map otherwise.
C18_UnregisterOwnOnly ==
    [][\A m \in Modules, a \in CmdArgs :
          UnregisterCommand(m, a) =>
              IF registry[Canon(a)] = m
              THEN registry'[Canon(a)] = NoMod /\ Canon(a) \notin commands'[m]
              ELSE registry' = registry /\ commands' = commands]_vars

\* the listeners an event of source src named key is handed to
ListenersOf(src, key) ==
    IF src = "Discord" THEN OfEmitter(botListeners[key])
    ELSE IF src = "Azarasi" THEN OfEmitter(busListeners[key])
    ELSE SubscribersOf(key)

\* an emitted event has reached every listener whose binding module is not
\* disabled for the guild of the payload
EmitReachesOthers ==
    last.op = "emit" =>
        \A i \in (last.entered + 1)..last.bound :
            IsDisabledForGuild(ListenersOf(last.src, last.key)[i].l.by, last.guild)

\* C19: while some module is disabled for some guild, nothing else is
\* suppressed: an emitted event reaches every listener bound to it (each is
\* called, or suspended at its guild lookup) unless the module that bound the
\* listener is disabled for the guild of the payload, and a resumed wrapper
\* skips its handler only when its own module is disabled for that guild.
C19_OthersStillInvoked ==
    [][disabled' # {} =>
          /\ EmitReachesOthers'
          /\ (last'.op = "resume" /\ last'.calls = <<>>) =>
                \E i \in 1..Len(inflight) :
                    /\ inflight' = RemoveAt(inflight, i)
                    /\ IsDisabledForGuild(inflight[i].l.mod, inflight[i].guild)]_vars

\* C20: with prefix "--" and the literal command "ping" registered for level
\* Everyone (and "pong" not registered), a message of an unprivileged author
\* dispatches ping's handler when its text is "--ping" or "--PING", dispatches
\* nothing when it is "ping", and dispatches nothing and reports no error when
\* it is "--pong".
C20_DispatchScenario ==
    ( /\ last.op = "processMessage"
      /\ last.src = "user"
      /\ registry["ping"] # NoMod
      /\ registry["pong"] = NoMod
      /\ ~IsModuleDisabledForGuild(last.guild, registry["ping"]) )
    => /\ last.key = <<"-", "-", "p", "i", "n", "g">> => last.val = "ping"
       /\ last.key = <<"p", "i", "n", "g">> => last.val = NoVal
       /\ last.key = <<"-", "-", "P", "I", "N", "G">> => last.val = "ping"
       /\ last.key = <<"-", "-", "p", "o", "n", "g">>
             => (last.val = NoVal /\ last.err = "none")

\* "--PING" of an unprivileged author has dispatched ping
C20_Witness ==
    /\ last.op = "processMessage"
    /\ last.src = "user"
    /\ registry["ping"] # NoMod
    /\ registry["pong"] = NoMod
    /\ last.key = <<"-", "-", "P", "I", "N", "G">>
    /\ last.val = "ping"

\* C21: a module in state Errored has no command in the registry and no event
\* binding attached: when init throws during a load, what the module had
\* registered is removed, the module is Errored and the caller is handed the
\* failure.
C21_ErroredHoldsNothing ==
    /\ \A m \in Modules : modState[m] = "Errored" => NothingLeftOf(m)
    /\ (last.op = "load" /\ last.err = "InitError") => modState[last.src] = "Errored"

C23_ReloadIsUnloadThenLoad ==
    [][/\ \A m \in Modules :
             (last'.op = "reload" /\ last'.src = m /\ last'.err = "none")
                => NothingLeftOf(m)'
       /\ \A m \in Modules :
             modState[m] = "Reloading"
                => modState'[m] \in {"Reloading", "Loaded", "Errored"}]_vars

\* C24: the levels are totally ordered Everyone < DJ < Admin < Owner, and an
\* actor satisfies a required level exactly when the highest level the actor
\* attains is at least it: a command requiring Admin is never dispatched for
\* an actor attaining only Everyone, and is dispatched for an actor of the
\* admin list.
C24_LevelGatesDispatch ==
    /\ Everyone < DJ /\ DJ < Admin /\ Admin < Owner
    /\ \A a \in Authors, r \in Levels :
          Check(a, r) <=> (\E l \in Attained(a) : l >= r)
    /\ last.op = "processMessage" =>
          /\ last.val # NoVal => AuthorLevel(last.src) >= RequiredLevel(last.val)
          /\ \A n \in CmdNames :
                (/\ RequiredLevel(n) = Admin
                 /\ registry[n] # NoMod
                 /\ last.key = Prefix \o Spelling(n)
                 /\ last.src \notin Blacklist
                 /\ ~(last.guild # NoGuild
                      /\ IsModuleDisabledForGuild(last.guild, registry[n])))
                => /\ Attained(last.src) = {Everyone} => last.val = NoVal
                   /\ last.src \in AdminList => last.val = n

\* an actor attaining only Everyone has sent a registered command that
\* requires Admin, and nothing else stood in the way of its dispatch
C24_Witness ==
    /\ last.op = "processMessage"
    /\ last.src = "user"
    /\ last.key = Prefix \o Spelling("pong")
    /\ registry["pong"] # NoMod
    /\ last.guild = NoGuild
    /\ last.val = NoVal

\* C25: a module whose allowDisabling is false is reported enabled for every
\* guild whatever flag is stored for it, so the guard of its handlers never
\* skips an event: a suspended invocation of its wrapper always ends in the
\* call of the handler.
C25_NotDisablableNeverSkipped ==
    [][/\ \A m \in Modules, g \in Guilds :
             ~AllowDisabling(m) => ~IsDisabledForGuild(m, g)
       /\ \A i \in 1..Len(inflight) :
             (/\ last'.op = "resume"
              /\ inflight' = RemoveAt(inflight, i)
              /\ ~AllowDisabling(inflight[i].l.mod))
                => /\ Len(last'.calls) = 1
                   /\ last'.calls[1].mod = inflight[i].l.mod
                   /\ last'.calls[1].h = inflight[i].l.h]_vars

\* the handler of a module that cannot be disabled has run for a guild the
\* module is flagged disabled in
C25_Witness ==
    /\ last.op = "resume"
    /\ Len(last.calls) = 1
    /\ ~AllowDisabling(last.calls[1].mod)
    /\ <<last.calls[1].guild, last.calls[1].mod>> \in disabled

\* the record's stored handler, or subscription, is what is attached for it
RecordAttached(e) ==
    CASE e.type = "Discord" ->
            \E j \in 1..Len(botListeners[e.evName]) : botListeners[e.evName][j] = e.handler
      [] e.type = "Azarasi" ->
            \E j \in 1..Len(busListeners[e.name]) : busListeners[e.name][j] = e.handler
      [] OTHER ->
            \/ \E j \in 1..Len(subscriptions) : subscriptions[j].id = e.sub
            \/ \E j \in 1..Len(subscribing) : subscribing[j].id = e.sub

\* C26: whatever registerCommand, unregisterCommand (under any spelling),
\* registerEvent and unregisterEvent were called, failed calls included, a
\* module's commands map holds exactly the commands the registry holds for
\* it, and its events list holds exactly one record for each listener or
\* subscription attached for it, the record's handler being the function
\* attached.
C26_ModuleMirrorsRegistrations ==
    \A m \in Modules :
        /\ commands[m] = {n \in CmdNames : registry[n] = m}
        /\ \A j \in 1..Len(events[m]) : RecordAttached(events[m][j])
        /\ \A ev \in BotEvents : \A j \in 1..Len(botListeners[ev]) :
              botListeners[ev][j].by = m
                 => \E k \in 1..Len(events[m]) : events[m][k].handler = botListeners[ev][j]
        /\ \A name \in BusEvents : \A j \in 1..Len(busListeners[name]) :
              busListeners[name][j].by = m
                 => \E k \in 1..Len(events[m]) : events[m][k].handler = busListeners[name][j]
        /\ \A j \in 1..Len(subscriptions) :
              subscriptions[j].handler.by = m
                 => \E k \in 1..Len(events[m]) : events[m][k].sub = subscriptions[j].id

\* the bindings unregisterEvent(name, h) of module m is about: h = NoHandler
\* when the handler is omitted
Selected(m, name, h, by, at, orig) ==
    by = m /\ at = name /\ (h = NoHandler \/ orig = h)

\* what unregisterEvent(name, h) of module m is to leave: the module's records
\* and the attached listeners and subscriptions without the selected bindings,
\* everything else as it was
Reversed(m, name, h) ==
    /\ events' = [events EXCEPT ![m] =
                     SelectSeq(@, LAMBDA e : ~Selected(m, name, h, m, e.name,
                                                       e.originalHandler))]
    /\ botListeners' = [ev \in BotEvents |->
          SelectSeq(botListeners[ev],
                    LAMBDA l : ~Selected(m, name, h, l.by, <<"discord">> \o ev, l.h))]
    /\ busListeners' = [n \in BusEvents |->
          SelectSeq(busListeners[n], LAMBDA l : ~Selected(m, name, h, l.by, n, l.h))]
    /\ subscriptions' =
          SelectSeq(subscriptions,
                    LAMBDA s : ~Selected(m, name, h, s.handler.by, <<"db">> \o s.key,
                                         s.handler.h))

\* C27: unregisterEvent(name) with the handler omitted removes every binding
\* of the module under that name, all of them also when one removal fails;
\* unregisterEvent(name, h) removes the bindings whose original handler is h;
\* the bindings under other names, of other handlers and of other modules
\* stay as they were.
C27_UnregisterRemovesSelected ==
    [][\A m \in Modules, name \in EventNames, h \in RawHandlers \cup {NoHandler} :
          UnregisterEvent(m, name, h) => Reversed(m, name, h)]_vars

\* C28: registerEvent resolves the namespace once, from the part of the name
\* before the first dot, and creates one binding record and one attachment in
\* that namespace alone: a gateway listener under the remainder, a data-store
\* subscription on the remainder, or a framework-bus listener under the full
\* name; and the record stores what unregisterEvent needs to reverse exactly
\* that registration.
C28_RegisterBindsOnceReversibly ==
    [][\A m \in Modules, name \in EventNames, h \in RawHandlers :
          RegisterEvent(m, name, h) =>
             LET t == ModuleEventType(name)
                 id == nextId'
             IN  /\ Len(events'[m]) = Len(events[m]) + 1
                 /\ SubSeq(events'[m], 1, Len(events[m])) = events[m]
                 /\ events'[m][Len(events'[m])].name = name
                 /\ events'[m][Len(events'[m])].originalHandler = h
                 /\ botListeners' = IF t = "Discord"
                       THEN [botListeners EXCEPT ![Tail(name)] = Append(@, Wrapper(id, m, h))]
                       ELSE botListeners
                 /\ Len(subscribing') = Len(subscribing) + (IF t = "DataStore" THEN 1 ELSE 0)
                 /\ t = "DataStore" => subscribing'[Len(subscribing')].key = Tail(name)
                 /\ \A n \in BusEvents :
                       Len(busListeners'[n])
                          = Len(busListeners[n]) + (IF t = "Azarasi" /\ n = name THEN 1 ELSE 0)
                 /\ Matching(events[m], name, h) = <<>>
                       => LET r == UnregisterEventResult(m, name, h)'
                          IN  /\ r.err = "none"
                              /\ r.ev = events[m]
                              /\ r.bot = botListeners
                              /\ r.bus = busListeners]_vars

\* a constructor call that threw created nothing
AbortedClean ==
    az.err # "none" => (~az.client /\ az.managers = {} /\ az.listeners = {})

C30_OffRemovesOnlyItself ==
    [][\A id \in DOMAIN offCalls :
          (offCalls[id] = 0 /\ offCalls'[id] = 1)
              => /\ subscriptions' = SelectSeq(subscriptions, LAMBDA s : s.id # id)
                 /\ \A key \in StoreKeys :
                       SubscribersOf(key)'
                          = SelectSeq(SubscribersOf(key), LAMBDA e : e.via # id)]_vars

\* C31: a message whose author is in the configured blacklist never reaches
\* command dispatch; a message of any other author, or of any author when no
\* blacklist is configured, is handed to the command manager's
\* processMessage exactly once.
C31_BlacklistGatesForwarding ==
    last.op = "processMessage" =>
        LET b == az.properties.blacklist
            listed == b.set /\ \E k \in 1..Len(b.ids) : b.ids[k] = last.src
        IN  /\ listed => (last.entered = 0 /\ last.val = NoVal)
            /\ ~listed => last.entered = 1

\* a message of a blacklisted author has been dropped
C31_Witness ==
    /\ last.op = "processMessage"
    /\ last.src = "banned"
    /\ az.properties.blacklist.set
    /\ az.properties.blacklist.ids = <<"banned">>
    /\ last.entered = 0

\* the transcoder processes of a player that are running, and its streams
\* that are playing
LiveProcs(pl) == {k \in Plays : pl.procs[k] = "live"}
PlayingStreams(pl) == {k \in Plays : pl.streams[k] = "playing"}

\* C32: an AudioPlayer has at most one stream and one live transcoder process
\* at any time: play() while a stream is current is rejected with an error
\* and starts nothing, and of two play() calls that overlap, the second made
\* while the first awaits the join, not both start a transcoder process.
C32_OneStreamOneTranscoder ==
    [][\A g \in Guilds :
          /\ Cardinality(LiveProcs(players'[g])) <= 1
          /\ Cardinality(PlayingStreams(players'[g])) <= 1
          /\ (last'.op = "play" /\ last'.guild = g /\ players[g].currentStream # 0)
                => (last'.err = "Playing" /\ players'[g] = players[g])
          /\ Cardinality({k \in Plays : players'[g].procs[k] # "none"})
                <= Cardinality({k \in Plays : players[g].procs[k] # "none"})
                   + (IF players[g].joining # {} /\ LiveProcs(players[g]) = {}
                      THEN 1 ELSE 0)]_vars

\* C33: whenever playback ends, by the stream's 'end' or by stop() with or
\* without removeEvents, the player's current stream is cleared and the
\* transcoder process the matching play() started is killed, so that a later
\* play() is accepted.
C33_EndOfPlaybackCleans ==
    [][\A g \in Guilds :
          /\ \A k \in Plays :
                (players[g].streams[k] = "playing" /\ players'[g].streams[k] = "ended"
                   /\ last'.op \in {"end", "stop"})
                   => /\ players'[g].procs[k] = "killed"
                      /\ players'[g].currentStream = 0
          /\ (last'.op = "stop" /\ last'.guild = g)
                => /\ players'[g].currentStream = 0
                   /\ PlayingStreams(players[g]) # {}
                         => \E k \in PlayingStreams(players[g]) :
                               players'[g].streams[k] = "ended"
          /\ (last'.op = "play" /\ last'.guild = g /\ PlayingStreams(players[g]) = {})
                => last'.err = "none"]_vars

=============================================================================
